---- MODULE Spec2Model ----
(***************************************************************************)
(* Model of library/mongodb_replication.py: one run of main() against a    *)
(* MongoDB node whose local.system.replset collection holds the replica    *)
(* set configuration.  Strings are sequences of one-character strings, so  *)
(* that Python's "x in y" on strings is the substring test it is.          *)
(* Documents (Python dicts) are functions from key strings to values.      *)
(***************************************************************************)
EXTENDS Integers, Sequences, FiniteSets, TLC

(* ------------------------------ bounds --------------------------------- *)

\* members of a configuration the run starts from
MaxInitMembers == 2
\* transient failures the environment injects in one run of Spec
MaxFaults == 1
\* reconfigurations by other actors during one run
MaxExternal == 1
\* time an operation on the cluster takes when it does not return at once
SlowCall == 200

(* ------------------------- program constants --------------------------- *)

\* add_host / remove_host / wait_for_ok_and_master: timeout=180
Timeout == 180
\* time.sleep(5) between two attempts of add_host / remove_host
Backoff == 5
\* time.sleep(1) between two polls of wait_for_ok_and_master
PollInterval == 1
\* serverselectiontimeoutms of the direct connection, in seconds
SelectionTimeout == 10
\* timedelta.seconds is the seconds part of the difference, below one day
SecondsPerDay == 86400
\* defaults of the argument_spec
DefaultPriority == 1
DefaultSlaveDelay == 0
DefaultVotes == 1

None == "None"

(* ------------------------------ strings -------------------------------- *)

\* Python: needle in hay, for strings
Contains(needle, hay) ==
  \E i \in 1..(Len(hay) - Len(needle) + 1) :
     SubSeq(hay, i, i + Len(needle) - 1) = needle

\* Python: "{0}:{1}".format(host_name, host_port)
Format(host_name, host_port) == host_name \o <<":">> \o host_port

HostNames == {<<"a">>, <<"b", "a">>}
HostPorts == {<<"1">>, <<"1", "2">>}
HostStrings == {Format(n, p) : n \in HostNames, p \in HostPorts}

(* ----------------------------- documents ------------------------------- *)

Has(doc, key) == key \in DOMAIN doc

EmptyDoc == [k \in {} |-> None]

\* Python's None where a document is expected
NoDoc == EmptyDoc

\* one optional key of a dict: set when cond holds
Opt(cond, key, val) == IF cond THEN key :> val ELSE EmptyDoc

\* a member document as local.system.replset stores it: a server that
\* stores defaults writes arbiterOnly into every member, an older one
\* (legacy) only into the arbiters
Member(id, host, arb, legacy) ==
  ("_id" :> id) @@ ("host" :> host) @@ Opt(arb \/ ~legacy, "arbiterOnly", arb)

\* the configuration document of local.system.replset
Config(name, version, members) ==
  ("_id" :> name) @@ ("version" :> version) @@ ("members" :> members)

\* a slip of MaxId: the id of the last member of the list
LastId(members) == members[Len(members)]["_id"]

\* max(cfg['members'], key=lambda x: x['_id'])['_id']
MaxId(members) ==
  CHOOSE i \in {members[k]["_id"] : k \in 1..Len(members)} :
     \A k \in 1..Len(members) : members[k]["_id"] <= i

\* Python truthiness of a stored flag
Truthy(v) == v = TRUE

(* --------------------------- check_members ----------------------------- *)

\* the for loop of check_members from the i-th member on: "unchanged" is
\* module.exit_json(changed=False), "KeyError" the exception of
\* member['arbiterOnly'] on a document without the key, "pass" the end of
\* the loop
RECURSIVE CheckLoop(_, _, _, _, _)
CheckLoop(state, host_type, hp, members, i) ==
  IF i > Len(members) THEN "pass"
  ELSE LET member == members[i]
           inHost == Contains(hp, member["host"])
           rest   == CheckLoop(state, host_type, hp, members, i + 1)
       IN IF state = "present"
          THEN IF host_type = "replica"
               THEN IF inHost THEN "unchanged" ELSE rest
               ELSE IF inHost
                    THEN IF ~Has(member, "arbiterOnly") THEN "KeyError"
                         ELSE IF Truthy(member["arbiterOnly"]) THEN "unchanged"
                         ELSE rest
                    ELSE rest
          ELSE IF host_type = "replica"
               THEN IF ~inHost THEN "unchanged" ELSE rest
               ELSE IF ~inHost
                    THEN IF ~Has(member, "arbiterOnly") THEN "KeyError"
                         ELSE IF Truthy(member["arbiterOnly"]) THEN "unchanged"
                         ELSE rest
                    ELSE rest

\* check_members on the documents of local.system.replset
CheckMembers(state, host_type, host_name, host_port, coll) ==
  IF Len(coll) > 1 THEN "UnexpectedTopology"
  ELSE IF coll = <<>> THEN "NoConfiguration"
  ELSE CheckLoop(state, host_type, Format(host_name, host_port),
                 coll[1]["members"], 1)

(* ------------------------------ add_host ------------------------------- *)

\* new_host of add_host
NewHost(members, host_name, host_port, host_type, kw) ==
  ("_id" :> (MaxId(members) + 1))
  @@ ("host" :> Format(host_name, host_port))
  @@ Opt(host_type = "arbiter", "arbiterOnly", TRUE)
  @@ Opt(~kw.build_indexes, "buildIndexes", FALSE)
  @@ Opt(kw.hidden, "hidden", TRUE)
  @@ Opt(kw.priority # DefaultPriority, "priority", kw.priority)
  @@ Opt(kw.slave_delay # DefaultSlaveDelay, "slaveDelay", kw.slave_delay)
  @@ Opt(kw.votes # DefaultVotes, "votes", kw.votes)

\* cfg of add_host after cfg['version'] += 1 and cfg['members'].append
AddProposal(read, host_name, host_port, host_type, kw) ==
  Config(read["_id"], read["version"] + 1,
         Append(read["members"],
                NewHost(read["members"], host_name, host_port, host_type, kw)))

(* ----------------------------- remove_host ----------------------------- *)

\* list.remove(x): the list without its first element equal to x
ListRemove(list, x) ==
  LET j == CHOOSE k \in 1..Len(list) :
             list[k] = x /\ \A l \in 1..(k - 1) : list[l] # x
  IN SubSeq(list, 1, j - 1) \o SubSeq(list, j + 1, Len(list))

\* the for loop of remove_host at list index i (from 0), over the list it
\* removes from while it iterates: "notfound" is the fail_json of the else
\* branch, "scanned" the end of the loop
RECURSIVE RemoveLoop(_, _, _)
RemoveLoop(host_name, members, i) ==
  IF i >= Len(members) THEN [result |-> "scanned", members |-> members]
  ELSE LET member == members[i + 1]
       IN IF Contains(host_name, member["host"])
          THEN RemoveLoop(host_name, ListRemove(members, member), i + 1)
          ELSE [result |-> "notfound", members |-> members]

\* a slip of RemoveAttempt: the test of len(cfg['members']) == 1 left out
RemoveUnguarded(host_name, read) == RemoveLoop(host_name, read["members"], 0)

\* the try body of remove_host on the document read
RemoveAttempt(host_name, read) ==
  IF Len(read["members"]) = 1
  THEN [result |-> "LastMemberRemoval", members |-> read["members"]]
  ELSE RemoveLoop(host_name, read["members"], 0)

(* ---------------------------- authenticate ----------------------------- *)

\* authenticate: "AmbiguousCredentials" is the fail_json of its elif,
\* "authenticated" the call of client.admin.authenticate, "anonymous" the
\* return without that call; cnf says that load_mongocnf gives credentials
Authenticate(login_user, login_password, cnf) ==
  LET bothNone == login_user = None /\ login_password = None
      fromFile == bothNone /\ cnf
      user     == IF fromFile THEN "cnf_user" ELSE login_user
      password == IF fromFile THEN "cnf_pass" ELSE login_password
  IN IF bothNone /\ ~cnf /\ login_password = None /\ login_user # None
     THEN "AmbiguousCredentials"
     ELSE IF user # None /\ password # None THEN "authenticated"
     ELSE "anonymous"

(* ------------------------- check_compatibility ------------------------- *)

\* LooseVersion(a) < LooseVersion(b): the comparison of the lists of the
\* numbers of a and b
RECURSIVE VersionLess(_, _)
VersionLess(a, b) ==
  IF b = <<>> THEN FALSE
  ELSE IF a = <<>> THEN TRUE
  ELSE IF Head(a) # Head(b) THEN Head(a) < Head(b)
  ELSE VersionLess(Tail(a), Tail(b))

\* LooseVersion(a) <= LooseVersion(b)
VersionAtMost(a, b) == ~VersionLess(b, a)

\* check_compatibility: "VersionIncompatible" is one of its fail_json
CheckCompatibility(srv, drv) ==
  IF VersionAtMost(<<4, 0>>, srv) /\ VersionLess(drv, <<3, 7>>)
  THEN "VersionIncompatible"
  ELSE IF VersionAtMost(<<3, 6>>, srv) /\ VersionLess(drv, <<3, 6>>)
  THEN "VersionIncompatible"
  ELSE IF VersionAtMost(<<3, 2>>, srv) /\ VersionLess(drv, <<3, 2>>)
  THEN "VersionIncompatible"
  ELSE IF VersionAtMost(<<3, 0>>, srv) /\ VersionAtMost(drv, <<2, 8>>)
  THEN "VersionIncompatible"
  ELSE IF VersionAtMost(<<2, 6>>, srv) /\ VersionAtMost(drv, <<2, 7>>)
  THEN "VersionIncompatible"
  ELSE IF VersionAtMost(drv, <<2, 5>>)
  THEN "VersionIncompatible"
  ELSE "pass"

(* ------------------------------- clock --------------------------------- *)

\* (dtdatetime.now() - start_time).seconds
Seconds(t, start) == (t - start) % SecondsPerDay

\* a slip of TimedOut: the budget counts as used up from the timeout on
TimedOutAtLimit(t, start) == Seconds(t, start) >= Timeout

\* the budget test of the except clauses and of wait_for_ok_and_master
TimedOut(t, start) == Seconds(t, start) > Timeout

(* ------------------------------- state --------------------------------- *)

VARIABLES
  params,      \* module.params: the request
  reach,       \* how the node answers: "set", "direct" or "down"
  replset,     \* the documents of local.system.replset on the node
  pc,          \* position of main()
  cfg,         \* cfg of add_host / remove_host in the current attempt
  now,         \* dtdatetime.now(), counted from the start of the run
  start_time,  \* start_time of the running loop
  outcome,     \* "running", or how the module ended
  issued,      \* which mutating commands were sent to the node
  sent,        \* the document of the last mutating command sent
  faultsLeft,  \* transient failures the environment may still inject (-1: any)
  extLeft,     \* reconfigurations other actors may still make
  checked,     \* the document check_members read
  seen,        \* the document the node held at the last read of the loop
  fresh,       \* the loop has read since its last write
  status,      \* the last answer to a poll of replSetGetStatus
  run,         \* 1 for the first invocation, 2 for the one after it
  orig,        \* the collection the first invocation started from
  creds,       \* module.params: login_user and login_password
  mongocnf,    \* ~/.mongodb.cnf gives a user and a password
  versions,    \* the versions of the server and of the driver
  auth,        \* what authenticate did with the credentials
  conns        \* the connections open, in the order they were opened

vars == <<params, reach, replset, pc, cfg, now, start_time, outcome,
          issued, sent, faultsLeft, extLeft, checked, seen, fresh, status,
          run, orig, creds, mongocnf, versions, auth, conns>>

\* what no statement of the module changes
env == <<creds, mongocnf, versions>>

SetName == "rs0"

Priorities == {DefaultPriority, DefaultPriority + 1}
SlaveDelays == {DefaultSlaveDelay, DefaultSlaveDelay + 1}
VotesValues == {DefaultVotes, 0}

\* module.params, for every value of the options main() reads
Requests ==
  [state : {"present", "absent"}, host_type : {"replica", "arbiter"},
   host_name : HostNames, host_port : HostPorts, replica_set : {SetName},
   priority : Priorities, build_indexes : BOOLEAN, hidden : BOOLEAN,
   slave_delay : SlaveDelays, votes : VotesValues]

DefaultAttributes(p) ==
  /\ p.build_indexes
  /\ ~p.hidden
  /\ p.slave_delay = DefaultSlaveDelay
  /\ p.votes = DefaultVotes

PlainRequests ==
  {p \in Requests : DefaultAttributes(p) /\ p.priority = DefaultPriority}

\* the keyword arguments main() passes to add_host
Kwargs(p) ==
  [build_indexes |-> p.build_indexes, hidden |-> p.hidden,
   priority |-> p.priority, slave_delay |-> p.slave_delay, votes |-> p.votes]

\* login_user and login_password: given or not
Credentials == [login_user : {None, "admin"}, login_password : {None, "secret"}]
NoCredentials == [login_user |-> None, login_password |-> None]

\* client.server_info()['version'] and pymongo's version, as the lists of
\* numbers LooseVersion makes of them
ServerVersions == {<<2, 4>>, <<2, 6>>, <<3, 0>>, <<3, 2>>, <<3, 6>>, <<4, 0, 3>>}
DriverVersions ==
  {<<2, 5>>, <<2, 7>>, <<2, 8>>, <<2, 8, 1>>, <<3, 2>>, <<3, 6>>, <<3, 11>>}
Compatible == [server |-> <<4, 0, 3>>, driver |-> <<3, 11>>]

\* injective sequences of n elements of S
RECURSIVE Arrangements(_, _)
Arrangements(S, n) ==
  IF n = 0 THEN {<<>>}
  ELSE UNION {{Append(a, x) : x \in S \ {a[k] : k \in 1..Len(a)}} :
              a \in Arrangements(S, n - 1)}

\* configurations a replica set can hold: n members of distinct hosts, the
\* ids 0..n-1 in rising or falling order, in the version n that n - 1
\* additions after the initiation give
ConfigsOf(n, Arbs, Legacy) ==
  {Config(SetName, n,
          [k \in 1..n |->
             Member(IF up THEN k - 1 ELSE n - k, hosts[k], arbs[k], legacy)]) :
     hosts \in Arrangements(HostStrings, n),
     up \in BOOLEAN,
     arbs \in [1..n -> Arbs],
     legacy \in Legacy}

\* every configuration of up to MaxInitMembers members
InitConfigs ==
  UNION {ConfigsOf(n, BOOLEAN, BOOLEAN) : n \in 1..MaxInitMembers}

\* those of data members only, stored with their defaults
DataConfigs ==
  UNION {ConfigsOf(n, {FALSE}, {FALSE}) : n \in 1..MaxInitMembers}

Durations == {0, SlowCall}

InitCommon ==
  /\ pc = "start"
  /\ cfg = NoDoc
  /\ now = 0
  /\ start_time = 0
  /\ outcome = "running"
  /\ issued = [reconfig |-> FALSE, initiate |-> FALSE]
  /\ sent = NoDoc
  /\ checked = NoDoc
  /\ seen = NoDoc
  /\ fresh = FALSE
  /\ status = NoDoc
  /\ run = 1
  /\ orig = replset
  /\ auth = "none"
  /\ conns = <<>>

\* no credentials given or stored, a server and a driver that go together
InitUsual ==
  /\ creds = NoCredentials
  /\ mongocnf = FALSE
  /\ versions = Compatible

\* a plain request against every configuration of a reachable set, in a
\* run without failures and without other actors
InitChecker ==
  /\ params \in PlainRequests
  /\ reach = "set"
  /\ \E c \in InitConfigs : replset = <<c>>
  /\ faultsLeft = 0
  /\ extLeft = 0
  /\ InitUsual

\* a request of any attribute values against a set of data members, in a
\* run without failures and without other actors
InitAttributes ==
  /\ params \in Requests
  /\ reach = "set"
  /\ \E c \in DataConfigs : replset = <<c>>
  /\ faultsLeft = 0
  /\ extLeft = 0
  /\ InitUsual

\* a plain request against a set of one data member, in a run with
\* transient failures and another actor
InitFaults ==
  /\ params \in PlainRequests
  /\ reach = "set"
  /\ \E c \in ConfigsOf(1, {FALSE}, {FALSE}) : replset = <<c>>
  /\ faultsLeft = MaxFaults
  /\ extLeft = MaxExternal
  /\ InitUsual

\* a request against a node no set was initiated on
InitFresh ==
  /\ params \in {p \in Requests : DefaultAttributes(p)}
  /\ reach = "direct"
  /\ replset = <<>>
  /\ faultsLeft = 0
  /\ extLeft = 0
  /\ InitUsual

\* a request without replica_set; a node that does not answer; a node with
\* a second, foreign document beside the configuration
InitOdd ==
  /\ \/ /\ \E p \in PlainRequests :
              params = [p EXCEPT !.replica_set = None]
        /\ reach = "set"
        /\ \E c \in ConfigsOf(1, {FALSE}, {FALSE}) : replset = <<c>>
     \/ /\ params \in PlainRequests
        /\ reach = "down"
        /\ replset = <<>>
     \/ /\ params \in PlainRequests
        /\ reach = "set"
        /\ \E c \in ConfigsOf(1, {FALSE}, {FALSE}) : replset = <<c, c>>
  /\ faultsLeft = 0
  /\ extLeft = 0
  /\ InitUsual

\* a plain request with every combination of credentials, against a set
\* of one data member
InitCredentials ==
  /\ params \in PlainRequests
  /\ reach = "set"
  /\ \E c \in ConfigsOf(1, {FALSE}, {FALSE}) : replset = <<c>>
  /\ faultsLeft = 0
  /\ extLeft = 0
  /\ creds \in Credentials
  /\ mongocnf \in BOOLEAN
  /\ versions = Compatible

\* a request for one host with every pair of versions, against a set of
\* one data member or a node no set was initiated on
InitVersions ==
  /\ params \in {p \in PlainRequests :
                   /\ p.host_name = <<"a">> /\ p.host_port = <<"1">>
                   /\ p.host_type = "replica"}
  /\ \/ /\ reach = "set"
        /\ replset = <<Config(SetName, 1,
                              <<Member(0, Format(<<"b", "a">>, <<"1">>),
                                       FALSE, FALSE)>>)>>
     \/ /\ reach = "direct"
        /\ replset = <<>>
  /\ faultsLeft = 0
  /\ extLeft = 0
  /\ creds = NoCredentials
  /\ mongocnf = FALSE
  /\ versions \in [server : ServerVersions, driver : DriverVersions]

Init ==
  /\ \/ InitChecker \/ InitAttributes \/ InitFaults \/ InitFresh \/ InitOdd
     \/ InitCredentials \/ InitVersions
  /\ InitCommon

(* ------------------------------ actions -------------------------------- *)

\* module.exit_json / module.fail_json / an exception nothing catches
Finish(how) == pc' = "done" /\ outcome' = how

FaultAllowed == faultsLeft # 0
SpendFault == faultsLeft' = IF faultsLeft > 0 THEN faultsLeft - 1 ELSE faultsLeft

\* collection.find_one()
FindOne(coll) == IF coll = <<>> THEN NoDoc ELSE coll[1]

\* client.close()
Close(open) == SubSeq(open, 1, Len(open) - 1)

\* authenticate(module, client, login_user, login_password): the same
\* arguments at each of its calls
AuthResult == Authenticate(creds.login_user, creds.login_password, mongocnf)

\* main(): the replica-set-aware connection, authenticate and
\* replSetGetStatus
Connect ==
  /\ pc = "start"
  /\ IF params.replica_set = None
     THEN Finish("ReplicaSetRequired") /\ UNCHANGED <<auth, conns>>
     ELSE /\ conns' = Append(conns, "set")
          /\ auth' = AuthResult
          /\ IF AuthResult = "AmbiguousCredentials"
             THEN Finish("AmbiguousCredentials")
             ELSE IF reach = "set" THEN pc' = "reconnect" /\ outcome' = outcome
             ELSE IF reach = "direct"
                  THEN pc' = "bootstrap" /\ outcome' = outcome
             ELSE Finish("ConnectionFailure")
  /\ UNCHANGED <<env>>
  /\ UNCHANGED <<params, reach, replset, cfg, now, start_time, issued,
                 sent, faultsLeft, extLeft, checked, seen, fresh, status, run,
                 orig>>

\* new_host and config of the except ServerSelectionTimeoutError branch
InitiateDoc(p) ==
  ("_id" :> p.replica_set)
  @@ ("members" :>
        <<("_id" :> 0) @@ ("host" :> Format(p.host_name, p.host_port))
          @@ Opt(p.priority # DefaultPriority, "priority", p.priority)>>)

\* the configuration a node holds once it accepted replSetInitiate
Initiated(doc) == Config(doc["_id"], 1, doc["members"])

\* a slip of Bootstrap: the set is initiated whatever state asks for
BootstrapAnyState ==
  /\ pc = "bootstrap"
  /\ sent' = InitiateDoc(params)
  /\ issued' = [issued EXCEPT !.initiate = TRUE]
  /\ \/ /\ replset = <<>>
        /\ replset' = <<Initiated(InitiateDoc(params))>>
        /\ conns' = Close(Append(conns, "direct"))
        /\ pc' = "poll"
        /\ start_time' = now
        /\ outcome' = outcome
     \/ /\ Finish("BootstrapFailed")
        /\ conns' = Append(conns, "direct")
        /\ UNCHANGED <<replset, start_time>>
  /\ UNCHANGED <<env, auth>>
  /\ UNCHANGED <<params, reach, cfg, now, faultsLeft, extLeft,
                 checked, seen, fresh, status, run, orig>>

\* main(): the branch taken when no member of the set could be selected
Bootstrap ==
  /\ pc = "bootstrap"
  /\ \/ /\ params.state = "present"
        /\ sent' = InitiateDoc(params)
        /\ issued' = [issued EXCEPT !.initiate = TRUE]
        /\ \/ /\ replset = <<>>
              /\ replset' = <<Initiated(InitiateDoc(params))>>
              /\ conns' = Close(Append(conns, "direct"))
              /\ pc' = "poll"
              /\ start_time' = now
              /\ outcome' = outcome
           \/ /\ Finish("BootstrapFailed")
              /\ conns' = Append(conns, "direct")
              /\ UNCHANGED <<replset, start_time>>
     \/ /\ params.state # "present"
        /\ conns' = Append(conns, "direct")
        /\ pc' = "reconnect"
        /\ UNCHANGED <<sent, issued, replset, start_time, outcome>>
  /\ UNCHANGED <<env, auth>>
  /\ UNCHANGED <<params, reach, cfg, now, faultsLeft, extLeft,
                 checked, seen, fresh, status, run, orig>>

\* the answers of replSetGetStatus: ok and myState (1 is PRIMARY), or the
\* ServerSelectionTimeoutError raised instead
StatusAnswers ==
  {[ok |-> 0, myState |-> 0], [ok |-> 1, myState |-> 2],
   [ok |-> 1, myState |-> 1]}

\* a slip of Ready: the role of the polled node is not looked at
ReadyOkOnly(st) == st.ok = 1

\* status['ok'] == 1 and status['myState'] == 1
Ready(st) == st.ok = 1 /\ st.myState = 1

\* a slip of Poll: a poll that finds no server ends the run
PollGivesUp ==
  /\ pc = "poll"
  /\ conns' = Append(conns, "direct")
  /\ \/ /\ \E st \in StatusAnswers :
              /\ status' = st
              /\ IF Ready(st) THEN Finish("changed")
                 ELSE pc' = "poll_close" /\ outcome' = outcome
        /\ now' = now
     \/ /\ status' = [error |-> "ServerSelectionTimeoutError"]
        /\ now' = now + SelectionTimeout
        /\ Finish("ServerSelectionTimeoutError")
  /\ UNCHANGED <<env, auth>>
  /\ UNCHANGED <<params, reach, replset, cfg, start_time, issued,
                 sent, faultsLeft, extLeft, checked, seen, fresh, run, orig>>

\* wait_for_ok_and_master: one poll; the one that finds no server raises
\* ServerSelectionTimeoutError after the selection timeout, and the except
\* clause passes
Poll ==
  /\ pc = "poll"
  /\ conns' = Append(conns, "direct")
  /\ \/ /\ \E st \in StatusAnswers :
              /\ status' = st
              /\ IF Ready(st) THEN Finish("changed")
                 ELSE pc' = "poll_close" /\ outcome' = outcome
        /\ now' = now
     \/ /\ status' = [error |-> "ServerSelectionTimeoutError"]
        /\ now' = now + SelectionTimeout
        /\ pc' = "poll_close"
        /\ outcome' = outcome
  /\ UNCHANGED <<env, auth>>
  /\ UNCHANGED <<params, reach, replset, cfg, start_time, issued,
                 sent, faultsLeft, extLeft, checked, seen, fresh, run, orig>>

\* wait_for_ok_and_master: the budget is used up
WaitTimeout ==
  /\ pc = "poll_close"
  /\ TimedOut(now, start_time)
  /\ Finish("HealthCheckTimeout")
  /\ conns' = Close(conns)
  /\ UNCHANGED <<env, auth>>
  /\ UNCHANGED <<params, reach, replset, cfg, now, start_time, issued,
                 sent, faultsLeft, extLeft, checked, seen, fresh, status, run,
                 orig>>

\* wait_for_ok_and_master: time.sleep(1) and the next poll
WaitSleep ==
  /\ pc = "poll_close"
  /\ ~TimedOut(now, start_time)
  /\ now' = now + PollInterval
  /\ pc' = "poll"
  /\ conns' = Close(conns)
  /\ UNCHANGED <<env, auth>>
  /\ UNCHANGED <<params, reach, replset, cfg, start_time, outcome,
                 issued, sent, faultsLeft, extLeft, checked, seen, fresh,
                 status, run, orig>>

\* main(): the second connection, with the parameters of the last one,
\* check_compatibility, check_members and the call of add_host or
\* remove_host
Check ==
  /\ pc = "reconnect"
  /\ conns' = Append(conns, IF reach = "set" THEN "set" ELSE "direct")
  /\ IF CheckCompatibility(versions.server, versions.driver) # "pass"
     THEN /\ Finish("VersionIncompatible")
          /\ UNCHANGED <<checked, start_time>>
     ELSE /\ checked' = IF Len(replset) > 1 THEN NoDoc ELSE FindOne(replset)
          /\ LET r == CheckMembers(params.state, params.host_type,
                                   params.host_name, params.host_port, replset)
             IN IF r # "pass" THEN Finish(r) /\ UNCHANGED start_time
                ELSE /\ outcome' = outcome
                     /\ start_time' = now
                     /\ IF params.state = "present"
                        THEN pc' = "add_read"
                        ELSE pc' = "remove_read"
  /\ UNCHANGED <<env, auth>>
  /\ UNCHANGED <<params, reach, replset, cfg, now, issued, sent, faultsLeft,
                 extLeft, seen, fresh, status, run, orig>>

\* a slip of AddSnapshot: the document of the attempt before is kept
StaleSnapshot == IF cfg # NoDoc THEN cfg ELSE FindOne(replset)

\* add_host: cfg = local_db.system.replset.find_one() of this attempt
AddSnapshot == FindOne(replset)

\* what the node does with a replSetReconfig document: it takes a document
\* of a version above the one it holds, of at most MemberCap members
MemberCap == MaxInitMembers + MaxExternal + MaxFaults + 1

\* a slip of Acceptable: the node takes a document of any version
AcceptAny(doc, coll) ==
  /\ Len(coll) = 1
  /\ Len(doc["members"]) <= MemberCap

Acceptable(doc, coll) ==
  /\ Len(coll) = 1
  /\ doc["version"] > coll[1]["version"]
  /\ Len(doc["members"]) <= MemberCap

\* add_host: the reads of one attempt and the document it builds
AddRead ==
  /\ pc = "add_read"
  /\ \/ /\ FaultAllowed
        /\ SpendFault
        /\ \E d \in Durations : now' = now + d
        /\ pc' = "add_except"
        /\ UNCHANGED <<cfg, outcome, seen, fresh>>
     \/ /\ Len(replset) > 1
        /\ Finish("UnexpectedTopology")
        /\ UNCHANGED <<cfg, now, faultsLeft, seen, fresh>>
     \/ /\ Len(replset) <= 1
        /\ AddSnapshot = NoDoc
        /\ Finish("NoConfiguration")
        /\ UNCHANGED <<cfg, now, faultsLeft, seen, fresh>>
     \/ /\ Len(replset) <= 1
        /\ AddSnapshot # NoDoc
        /\ cfg' = AddProposal(AddSnapshot, params.host_name, params.host_port,
                              params.host_type, Kwargs(params))
        /\ seen' = FindOne(replset)
        /\ fresh' = TRUE
        /\ pc' = "add_write"
        /\ UNCHANGED <<now, faultsLeft, outcome>>
  /\ UNCHANGED <<env, auth, conns>>
  /\ UNCHANGED <<params, reach, replset, start_time, issued, sent,
                 extLeft, checked, status, run, orig>>

\* add_host: admin_db.command('replSetReconfig', cfg), and on its success
\* the return to main() and exit_json(changed=True)
AddWrite ==
  /\ pc = "add_write"
  /\ sent' = cfg
  /\ issued' = [issued EXCEPT !.reconfig = TRUE]
  /\ fresh' = FALSE
  /\ \/ /\ Acceptable(cfg, replset)
        /\ replset' = <<cfg>>
        /\ Finish("changed")
        /\ UNCHANGED <<now, faultsLeft>>
     \/ /\ ~Acceptable(cfg, replset)
        /\ pc' = "add_except"
        /\ UNCHANGED <<replset, now, faultsLeft, outcome>>
     \/ /\ FaultAllowed
        /\ SpendFault
        /\ \E d \in Durations : now' = now + d
        /\ pc' = "add_except"
        /\ outcome' = outcome
        /\ \/ replset' = replset
           \/ Acceptable(cfg, replset) /\ replset' = <<cfg>>
  /\ UNCHANGED <<env, auth, conns>>
  /\ UNCHANGED <<params, reach, cfg, start_time, extLeft, checked,
                 seen, status, run, orig>>

\* add_host: the except clause with the budget used up
AddTimeout ==
  /\ pc = "add_except"
  /\ TimedOut(now, start_time)
  /\ Finish("ReconfigureTimeout")
  /\ UNCHANGED <<env, auth, conns>>
  /\ UNCHANGED <<params, reach, replset, cfg, now, start_time, issued,
                 sent, faultsLeft, extLeft, checked, seen, fresh, status, run,
                 orig>>

\* add_host: the except clause, time.sleep(5) and the next attempt
AddSleep ==
  /\ pc = "add_except"
  /\ ~TimedOut(now, start_time)
  /\ now' = now + Backoff
  /\ pc' = "add_read"
  /\ UNCHANGED <<env, auth, conns>>
  /\ UNCHANGED <<params, reach, replset, cfg, start_time, outcome,
                 issued, sent, faultsLeft, extLeft, checked, seen, fresh,
                 status, run, orig>>

\* remove_host: one pass of the try body
RemoveRead ==
  /\ pc = "remove_read"
  /\ \/ /\ FaultAllowed
        /\ SpendFault
        /\ \E d \in Durations : now' = now + d
        /\ pc' = "remove_except"
        /\ UNCHANGED <<cfg, outcome, seen, fresh>>
     \/ /\ Len(replset) > 1
        /\ Finish("UnexpectedTopology")
        /\ UNCHANGED <<cfg, now, faultsLeft, seen, fresh>>
     \/ /\ replset = <<>>
        /\ Finish("NoConfiguration")
        /\ UNCHANGED <<cfg, now, faultsLeft, seen, fresh>>
     \/ /\ Len(replset) = 1
        /\ LET read == FindOne(replset)
               r == RemoveAttempt(params.host_name, read)
           IN /\ cfg' = Config(read["_id"], read["version"] + 1, r.members)
              /\ seen' = read
              /\ fresh' = TRUE
              /\ IF r.result = "scanned"
                 THEN pc' = "remove_read" /\ outcome' = outcome
                 ELSE Finish(r.result)
        /\ UNCHANGED <<now, faultsLeft>>
  /\ UNCHANGED <<env, auth, conns>>
  /\ UNCHANGED <<params, reach, replset, start_time, issued, sent,
                 extLeft, checked, status, run, orig>>

\* remove_host: the except clause with the budget used up
RemoveTimeout ==
  /\ pc = "remove_except"
  /\ TimedOut(now, start_time)
  /\ Finish("ReconfigureTimeout")
  /\ UNCHANGED <<env, auth, conns>>
  /\ UNCHANGED <<params, reach, replset, cfg, now, start_time, issued,
                 sent, faultsLeft, extLeft, checked, seen, fresh, status, run,
                 orig>>

\* remove_host: the except clause, time.sleep(5) and the next pass
RemoveSleep ==
  /\ pc = "remove_except"
  /\ ~TimedOut(now, start_time)
  /\ now' = now + Backoff
  /\ pc' = "remove_read"
  /\ UNCHANGED <<env, auth, conns>>
  /\ UNCHANGED <<params, reach, replset, cfg, start_time, outcome,
                 issued, sent, faultsLeft, extLeft, checked, seen, fresh,
                 status, run, orig>>

\* another actor reconfigures the set while add_host or remove_host runs:
\* it adds a data member or removes the last one
ExternalReconfig ==
  /\ pc \in {"add_read", "add_write", "add_except", "remove_read",
             "remove_except"}
  /\ extLeft > 0
  /\ Len(replset) = 1
  /\ extLeft' = extLeft - 1
  /\ LET c == replset[1]
         m == c["members"]
     IN \/ \E h \in HostStrings :
             /\ \A k \in 1..Len(m) : m[k]["host"] # h
             /\ Len(m) < MemberCap
             /\ replset' = <<Config(c["_id"], c["version"] + 1,
                    Append(m, Member(MaxId(m) + 1, h, FALSE, FALSE)))>>
        \/ /\ Len(m) > 1
           /\ replset' = <<Config(c["_id"], c["version"] + 1,
                                  SubSeq(m, 1, Len(m) - 1))>>
  /\ UNCHANGED <<env, auth, conns>>
  /\ UNCHANGED <<params, reach, pc, cfg, now, start_time, outcome,
                 issued, sent, faultsLeft, checked, seen, fresh, status, run,
                 orig>>

\* the caller runs the module again, with state=absent, for the host a
\* first run has just added to an existing set
Reinvoke ==
  /\ pc = "done"
  /\ run = 1
  /\ outcome = "changed"
  /\ params.state = "present"
  /\ reach = "set"
  /\ run' = 2
  /\ params' = [params EXCEPT !.state = "absent"]
  /\ pc' = "start"
  /\ outcome' = "running"
  /\ cfg' = NoDoc
  /\ issued' = [reconfig |-> FALSE, initiate |-> FALSE]
  /\ sent' = NoDoc
  /\ checked' = NoDoc
  /\ seen' = NoDoc
  /\ fresh' = FALSE
  /\ now' = 0
  /\ start_time' = 0
  /\ auth' = "none"
  /\ conns' = <<>>
  /\ UNCHANGED <<env>>
  /\ UNCHANGED <<reach, replset, faultsLeft, extLeft, status, orig>>

Next ==
  \/ Connect
  \/ Bootstrap
  \/ Poll
  \/ WaitTimeout
  \/ WaitSleep
  \/ Check
  \/ AddRead
  \/ AddWrite
  \/ AddTimeout
  \/ AddSleep
  \/ RemoveRead
  \/ RemoveTimeout
  \/ RemoveSleep
  \/ ExternalReconfig
  \/ Reinvoke

Spec == Init /\ [][Next]_vars

\* a plain request against a set of one data member or a node without a
\* set, with no limit on the transient failures
InitRetry ==
  /\ \/ /\ params \in {p \in PlainRequests : p.host_type = "replica"}
        /\ reach = "set"
        /\ \/ \E c \in ConfigsOf(1, {FALSE}, {FALSE}) : replset = <<c>>
           \/ \E c \in ConfigsOf(1, {FALSE}, {FALSE}) : replset = <<c, c>>
        /\ extLeft = MaxExternal
     \/ /\ params \in PlainRequests
        /\ reach \in {"direct", "down"}
        /\ replset = <<>>
        /\ extLeft = 0
     \/ /\ \E p \in PlainRequests : params = [p EXCEPT !.replica_set = None]
        /\ reach = "direct"
        /\ replset = <<>>
        /\ extLeft = 0
  /\ faultsLeft = -1
  /\ InitUsual
  /\ InitCommon

SpecRetry == InitRetry /\ [][Next]_vars

\* the steps of the module itself
Step ==
  \/ Connect
  \/ Bootstrap
  \/ Poll
  \/ WaitTimeout
  \/ WaitSleep
  \/ Check
  \/ AddRead
  \/ AddWrite
  \/ AddTimeout
  \/ AddSleep
  \/ RemoveRead
  \/ RemoveTimeout
  \/ RemoveSleep

\* a plain request for one data host with no limit on the transient
\* failures: Present against a set of one other member, Absent against the
\* set of that host alone, either against a node without a set
InitLive ==
  /\ params \in {p \in PlainRequests :
                   /\ p.host_name = <<"b", "a">> /\ p.host_port = <<"1", "2">>
                   /\ p.host_type = "replica"}
  /\ \/ /\ reach = "set"
        /\ replset =
             <<Config(SetName, 1,
                      <<Member(0, IF params.state = "present"
                                  THEN Format(<<"a">>, <<"1">>)
                                  ELSE Format(params.host_name,
                                              params.host_port),
                               FALSE, FALSE)>>)>>
        /\ extLeft = MaxExternal
     \/ /\ reach = "direct"
        /\ replset = <<>>
        /\ extLeft = 0
  /\ faultsLeft = -1
  /\ InitUsual
  /\ InitCommon

\* the interpreter does not stop between two statements of the module
SpecLive == InitLive /\ [][Next]_vars /\ WF_vars(Step)

(* ------------------------------- claims -------------------------------- *)

\* the "hostname:port" of the request
Desired == Format(params.host_name, params.host_port)

\* a member of configuration c has exactly the host hp
IsMember(c, hp) ==
  \E k \in 1..Len(c["members"]) : c["members"][k]["host"] = hp

\* a member of c has the host hp in the role asked for
HasInRole(c, hp, host_type) ==
  \E k \in 1..Len(c["members"]) :
     LET m == c["members"][k]
     IN /\ m["host"] = hp
        /\ host_type = "arbiter" =>
              Has(m, "arbiterOnly") /\ m["arbiterOnly"] = TRUE

\* configuration c already is what request p asks for
Satisfied(p, c) ==
  IF p.state = "present"
  THEN HasInRole(c, Format(p.host_name, p.host_port), p.host_type)
  ELSE ~IsMember(c, Format(p.host_name, p.host_port))

AttributeKeys == {"buildIndexes", "hidden", "priority", "slaveDelay", "votes"}

\* the attribute keys request p sets to a value that is not the default
NonDefaultKeys(p) ==
  {k \in AttributeKeys :
     \/ k = "buildIndexes" /\ ~p.build_indexes
     \/ k = "hidden" /\ p.hidden
     \/ k = "priority" /\ p.priority # DefaultPriority
     \/ k = "slaveDelay" /\ p.slave_delay # DefaultSlaveDelay
     \/ k = "votes" /\ p.votes # DefaultVotes}

\* the value request p gives attribute key k
Requested(p, k) ==
  CASE k = "buildIndexes" -> p.build_indexes
    [] k = "hidden" -> p.hidden
    [] k = "priority" -> p.priority
    [] k = "slaveDelay" -> p.slave_delay
    [] k = "votes" -> p.votes

NoCommand == ~issued.reconfig /\ ~issued.initiate

\* configuration c is as the data model has it, and no host of it merely
\* contains hp: every member carries arbiterOnly, and a host that contains
\* hp is hp
Plain(c, hp) ==
  \A k \in 1..Len(c["members"]) :
     LET m == c["members"][k]
     IN /\ Has(m, "arbiterOnly")
        /\ Contains(hp, m["host"]) => m["host"] = hp

\* C1: when the configuration check_members read of an existing set already
\* is what the request asks for (Present or Absent, replica or arbiter), the
\* run sends no replSetReconfig and no replSetInitiate and ends with
\* changed = false.
C1_SatisfiedIsNoOp ==
  (/\ reach = "set" /\ checked # NoDoc
   /\ Plain(checked, Desired)
   /\ Satisfied(params, checked)) =>
     /\ NoCommand
     /\ pc = "done" => outcome = "unchanged"

\* C2: when a Present run against an existing set ends with changed = true
\* and the document its last attempt read lacks the host, the node holds
\* that document with the version raised by one and one member appended:
\* id one above the greatest id read, host "hostname:port", arbiterOnly for
\* an arbiter, and the attributes of the request that are not the default,
\* no others.
C2_AddResult ==
  (/\ pc = "done" /\ outcome = "changed"
   /\ params.state = "present" /\ reach = "set"
   /\ ~IsMember(seen, Desired)) =>
     LET c == replset[1]
         old == seen["members"]
         new == c["members"][Len(c["members"])]
     IN /\ c["version"] = seen["version"] + 1
        /\ Len(c["members"]) = Len(old) + 1
        /\ SubSeq(c["members"], 1, Len(old)) = old
        /\ \A k \in 1..Len(old) : new["_id"] > old[k]["_id"]
        /\ \E k \in 1..Len(old) : new["_id"] = old[k]["_id"] + 1
        /\ new["host"] = Desired
        /\ DOMAIN new = {"_id", "host"} \cup NonDefaultKeys(params)
              \cup (IF params.host_type = "arbiter" THEN {"arbiterOnly"}
                    ELSE {})
        /\ \A k \in NonDefaultKeys(params) : new[k] = Requested(params, k)

\* C2 witness: such a run against two members of which the first has the
\* greater id, for a request with an attribute that is not the default.
C2_Witness ==
  /\ pc = "done" /\ outcome = "changed"
  /\ params.state = "present" /\ reach = "set"
  /\ ~IsMember(seen, Desired)
  /\ Len(seen["members"]) = 2
  /\ seen["members"][1]["_id"] > seen["members"][2]["_id"]
  /\ NonDefaultKeys(params) # {}

\* C3: for state=absent, check_members ends the run with changed = false
\* if and only if no member of the configuration it read has the host of
\* the request.
C3_AbsentSatisfiedIff ==
  (params.state = "absent" /\ checked # NoDoc /\ Plain(checked, Desired)) =>
     (outcome = "unchanged" <=> ~IsMember(checked, Desired))

\* C4: an Absent run against a set of two or more members of which one has
\* the host of the request ends with changed = true and a configuration
\* without that host.
C4_RemovesMember ==
  (/\ pc = "done" /\ params.state = "absent" /\ reach = "set"
   /\ checked # NoDoc
   /\ Plain(checked, Desired)
   /\ Len(checked["members"]) >= 2
   /\ IsMember(checked, Desired)) =>
     /\ outcome = "changed"
     /\ ~IsMember(replset[1], Desired)

\* the set of member documents of a configuration
MemberSet(c) == {c["members"][k] : k \in 1..Len(c["members"])}

\* C5: when a Present run for a host the set lacked is followed by an Absent
\* run for the same host, the set ends with the members it started with and
\* a version greater by two.
C5_RoundTrip ==
  (/\ run = 2 /\ pc = "done"
   /\ Plain(orig[1], Desired)
   /\ ~IsMember(orig[1], Desired)) =>
     /\ MemberSet(replset[1]) = MemberSet(orig[1])
     /\ replset[1]["version"] = orig[1]["version"] + 2

\* C6: when remove_host has read a configuration whose only member is the
\* host of the request, the run ends with LastMemberRemoval and has sent no
\* command.
C6_LastMember ==
  (/\ params.state = "absent" /\ seen # NoDoc
   /\ Len(seen["members"]) = 1
   /\ seen["members"][1]["host"] = Desired) =>
     /\ outcome = "LastMemberRemoval"
     /\ NoCommand

\* C6 witness: a run ended that way.
C6_Witness ==
  /\ params.state = "absent" /\ seen # NoDoc
  /\ Len(seen["members"]) = 1
  /\ seen["members"][1]["host"] = Desired
  /\ outcome = "LastMemberRemoval"

\* document d is document c with the version raised by one and one member
\* appended
OneAdded(d, c) ==
  /\ d["version"] = c["version"] + 1
  /\ Len(d["members"]) = Len(c["members"]) + 1
  /\ SubSeq(d["members"], 1, Len(c["members"])) = c["members"]

\* C7: add_host writes only a document built from the read of the same
\* attempt: at every write it has read since the write before, and the
\* document sent is the one the node held at that read with the version
\* raised by one and one member appended.
C7_WriteFromFreshRead ==
  /\ pc = "add_write" => fresh /\ OneAdded(cfg, seen)
  /\ (issued.reconfig /\ ~fresh) => OneAdded(sent, seen)

\* C7 witness: a write sent, after a failed attempt and its sleep, from a
\* read of a configuration newer than the one check_members read.
C7_Witness ==
  /\ issued.reconfig /\ ~fresh
  /\ now >= Backoff
  /\ seen["version"] > checked["version"]

\* C8: no attempt of add_host or remove_host begins when more than the
\* timeout has passed since the loop started.
C8_NoLateAttempt ==
  pc \in {"add_read", "remove_read"} => Seconds(now, start_time) <= Timeout

\* C9: the member document sent for a Present request of an arbiter has
\* none of buildIndexes, hidden, priority, slaveDelay and votes.
C9_ArbiterPlain ==
  (issued.reconfig /\ params.state = "present"
   /\ params.host_type = "arbiter") =>
     LET m == sent["members"][Len(sent["members"])]
     IN DOMAIN m \cap AttributeKeys = {}

\* C10: a run that found no set and was asked for Present sends no
\* replSetReconfig, and when it ends with changed = true the node accepted
\* the replSetInitiate of the one member (id 0, the host of the request)
\* and the last poll of replSetGetStatus answered ok = 1 as primary.
C10_BootstrapThenHealthy ==
  (reach = "direct" /\ params.state = "present") =>
     /\ ~issued.reconfig
     /\ outcome = "changed" =>
          /\ issued.initiate
          /\ Len(sent["members"]) = 1
          /\ sent["members"][1]["_id"] = 0
          /\ sent["members"][1]["host"] = Desired
          /\ replset = <<Initiated(sent)>>
          /\ Has(status, "ok") /\ status.ok = 1 /\ status.myState = 1

\* C10 witness: such a run that ends with changed = true after polls that
\* found the node not ready.
C10_Witness ==
  /\ reach = "direct" /\ params.state = "present"
  /\ outcome = "changed"
  /\ now > 0

\* C11: wait_for_ok_and_master always ends: a poll that raised
\* ServerSelectionTimeoutError never ends the run otherwise than by the
\* timeout, a poll answered ok = 1 as primary ends the wait at once, the
\* timeout failure comes only after more than the timeout has passed, and
\* every wait that polls eventually ends.
C11_WaiterTerminates ==
  /\ []((pc = "done" /\ Has(status, "error")) =>
          outcome = "HealthCheckTimeout")
  /\ []((Has(status, "ok") /\ status.ok = 1 /\ status.myState = 1) =>
          (pc = "done" /\ outcome = "changed"))
  /\ [](outcome = "HealthCheckTimeout" => Seconds(now, start_time) > Timeout)
  /\ (pc = "poll") ~> (pc = "done")

\* C11 witness: a wait ended by the timeout after a poll that found no
\* server.
C11_Witness ==
  /\ pc = "done" /\ outcome = "HealthCheckTimeout"
  /\ Has(status, "error")

\* exactly one of login_user and login_password is given
HalfSupplied == (creds.login_user = None) # (creds.login_password = None)

\* C12: when exactly one of login_user and login_password is given and no
\* file gives credentials, the run ends at authenticate with
\* AmbiguousCredentials: once authenticate was called, the run has ended
\* that way, and authenticate went on neither authenticated nor anonymous.
C12_HalfCredentialsFail ==
  (HalfSupplied /\ ~mongocnf /\ auth # "none") =>
     /\ auth = "AmbiguousCredentials"
     /\ outcome = "AmbiguousCredentials"

\* C13: a connection of other parameters is opened only when those opened
\* before are closed, so the connections open at one time all have the
\* same parameters, and none is open once wait_for_ok_and_master has
\* returned.
C13_ConnectionsClosed ==
  /\ \A i, j \in 1..Len(conns) : conns[i] = conns[j]
  /\ (reach = "direct" /\ pc = "done" /\ outcome = "changed") =>
        conns = <<>>

\* the pairing of server and driver is one check_compatibility rejects
Incompatible ==
  CheckCompatibility(versions.server, versions.driver) = "VersionIncompatible"

\* C14: with a server and a driver that check_compatibility rejects, no
\* replSetInitiate and no replSetReconfig is ever sent.
C14_GateBeforeMutation ==
  Incompatible => NoCommand

\* C15: with a node that takes only a document of a version above the one
\* it holds, a write of add_host that changes the configuration replaces
\* the document the node holds at that moment by that document with the
\* version raised by one and the member of the request appended, and a
\* write built from a document the node no longer holds changes nothing
\* and is handled by the except clause.
C15_NoLostUpdate ==
  [][(pc = "add_write" /\ pc' # "add_write") =>
       /\ replset' # replset =>
             /\ Len(replset) = 1
             /\ replset' = <<cfg>>
             /\ OneAdded(cfg, replset[1])
             /\ cfg["members"][Len(cfg["members"])]["host"] = Desired
       /\ (Len(replset) = 1 /\ seen # replset[1]) =>
             (replset' = replset /\ pc' = "add_except")]_vars

\* C15 witness: a run that ended with changed = true after another actor's
\* reconfiguration made the node reject a write: two versions above the
\* start, a sleep taken, no failure injected.
C15_Witness ==
  /\ pc = "done" /\ outcome = "changed"
  /\ params.state = "present" /\ reach = "set" /\ run = 1
  /\ replset[1]["version"] = orig[1]["version"] + 2
  /\ faultsLeft = MaxFaults
  /\ now >= Backoff

\* the run ended with a failure
Failed ==
  pc = "done" /\ outcome \notin {"changed", "unchanged"}

\* nobody but the module wrote to the node: it holds the document it held
\* at the start, or the one add_host built from that document and sent
NoOtherWriter ==
  \/ replset = orig
  \/ /\ issued.reconfig
     /\ Len(orig) = 1
     /\ OneAdded(sent, orig[1])
     /\ replset = <<sent>>

\* C16: when a first run ends with a failure and nobody but the module
\* wrote to the node, the node holds the configuration it held at the
\* start.
C16_FailureLeavesConfig ==
  (run = 1 /\ Failed /\ NoOtherWriter) => replset = orig

\* C17: a run for state=absent that found no set sends no replSetInitiate
\* and no replSetReconfig, never polls for the set to come up, and ends
\* with changed = false or with a failure.
C17_AbsentNeverBootstraps ==
  (reach = "direct" /\ params.state = "absent") =>
     /\ NoCommand
     /\ pc \notin {"poll", "poll_close"}
     /\ pc = "done" => outcome # "changed"

\* C17 witness: such a run at its end, after the branch of main for a node
\* without a set and check_members.
C17_Witness ==
  /\ reach = "direct" /\ params.state = "absent"
  /\ pc = "done"
  /\ Len(conns) = 3

\* C18: for state=present, check_members ends the run with changed = false
\* if and only if a member of the configuration it read has exactly the
\* host of the request and, for an arbiter, a true arbiterOnly; a member
\* without arbiterOnly counts as no arbiter and raises no error.
C18_PresentSatisfiedIff ==
  (params.state = "present" /\ checked # NoDoc) =>
     /\ outcome = "unchanged" <=>
           HasInRole(checked, Desired, params.host_type)
     /\ outcome # "KeyError"

\* C19: a pass of remove_host that read the configuration ends the run,
\* with a reconfiguration sent or with a failure: remove_host never starts
\* over after a pass that raised no exception.
C19_RemoveEnds ==
  (params.state = "absent" /\ seen # NoDoc) =>
     /\ pc = "done"
     /\ outcome = "changed" => issued.reconfig

\* C20: in add_host a failed attempt is followed by the sleep and the next
\* attempt as long as no more than the timeout has passed; the timeout
\* failure comes only after more than the timeout has passed; an
\* acknowledged write ends the run with changed = true; and every run that
\* entered add_host eventually ends.
C20_AddRetriesThenEnds ==
  /\ [][(pc = "add_except" /\ pc' # "add_except") =>
          IF Seconds(now, start_time) > Timeout
          THEN pc' = "done" /\ outcome' = "ReconfigureTimeout"
          ELSE pc' = "add_read" /\ now' = now + Backoff]_vars
  /\ [][(pc = "add_write" /\ pc' = "done") => outcome' = "changed"]_vars
  /\ (pc = "add_read") ~> (pc = "done")

\* C20 witness: a run that ended with changed = true after failed attempts
\* and their sleeps.
C20_Witness ==
  /\ pc = "done" /\ outcome = "changed"
  /\ params.state = "present" /\ reach = "set" /\ run = 1
  /\ now >= 2 * Backoff

\* the number of members of configuration c that have exactly the host hp
HostCount(c, hp) ==
  Cardinality({k \in 1..Len(c["members"]) : c["members"][k]["host"] = hp})

\* C21: for a Present request of a data member, no document sent with
\* replSetReconfig has the host of the request in more than one member.
C21_NoDuplicateHost ==
  (/\ params.state = "present" /\ params.host_type = "replica"
   /\ issued.reconfig) =>
     HostCount(sent, Desired) <= 1

====
